---------------------------- MODULE Spec2Model ----------------------------
(***************************************************************************)
(* A model of milking_streamlit.py: the farm-name anonymization, the alias *)
(* directory, the two memoized yield summaries and the sidebar selection.  *)
(*                                                                         *)
(* Text is a sequence of one-character strings, so that lower(), string    *)
(* comparison and f-string concatenation are computed, not assumed.        *)
(* A calendar date is a record [y, m, d]; an ISO date string compares as   *)
(* the triple does.  A yield value is a whole number of tenths of a liter; *)
(* the values used are multiples of 0.5 L, which binary floating point     *)
(* adds and halves exactly.                                                *)
(***************************************************************************)
EXTENDS Integers, Sequences, FiniteSets, TLC

VARIABLES
    animals,       \* table animals: a set of rows [ear_tag, farm_name]
    milk_yield,    \* table milk_yield: a sequence of rows (index = rowid)
    today,         \* date.today()
    cache_alias,   \* st.cache_data memo of build_farm_alias_maps (no argument)
    cache_farm,    \* st.cache_data memo of farm_yield_summary: argument -> value
    cache_animal,  \* st.cache_data memo of animal_yield_summary: argument -> value
    cache_load,    \* st.cache_data memo of load_animals: argument -> value
    ret,           \* the call that has just returned: [fn, arg, val]
    ui,            \* what the sidebar / page shows and what it queries with
    actual_name,   \* the argument of anonymize_farm_name
    anon_ret       \* what anonymize_farm_name returned for it

vars == <<animals, milk_yield, today, cache_alias, cache_farm, cache_animal,
          cache_load, ret, ui, actual_name, anon_ret>>

----------------------------------------------------------------------------
(* Text *)

\* Python None / SQL NULL in a text position.
NULL == <<"<NULL>">>

UpperCase == <<"A","B","C","D","E","F","G","H","I","J","K","L","M",
               "N","O","P","Q","R","S","T","U","V","W","X","Y","Z">>
LowerCase == <<"a","b","c","d","e","f","g","h","i","j","k","l","m",
               "n","o","p","q","r","s","t","u","v","w","x","y","z">>
Digits == <<"0","1","2","3","4","5","6","7","8","9">>

IndexIn(c, alphabet) ==
    IF \E i \in DOMAIN alphabet : alphabet[i] = c
    THEN CHOOSE i \in DOMAIN alphabet : alphabet[i] = c
    ELSE 0

\* The characters of the texts of the model, and the code point of each.
Chars ==
    {UpperCase[i] : i \in DOMAIN UpperCase} \cup {LowerCase[i] : i \in DOMAIN LowerCase}
        \cup {Digits[i] : i \in DOMAIN Digits} \cup {" ", "-", "_"}

CodeTable ==
    [c \in Chars |->
        IF IndexIn(c, UpperCase) > 0 THEN 64 + IndexIn(c, UpperCase)
        ELSE IF IndexIn(c, LowerCase) > 0 THEN 96 + IndexIn(c, LowerCase)
        ELSE IF IndexIn(c, Digits) > 0 THEN 47 + IndexIn(c, Digits)
        ELSE IF c = "-" THEN 45
        ELSE IF c = " " THEN 32
        ELSE 95]

Code(c) == CodeTable[c]

LowerTable ==
    [c \in Chars |->
        IF IndexIn(c, UpperCase) > 0 THEN LowerCase[IndexIn(c, UpperCase)] ELSE c]

\* A lower() that leaves the text as it is.
str_lower_id(s) == s

\* str.lower(), character by character.
str_lower(s) == [i \in DOMAIN s |-> LowerTable[s[i]]]

\* a < b for two strings compared by code point (Python str, SQLite BINARY).
RECURSIVE StrLess(_, _)
StrLess(a, b) ==
    IF b = << >> THEN FALSE
    ELSE IF a = << >> THEN TRUE
    ELSE IF Code(Head(a)) # Code(Head(b)) THEN Code(Head(a)) < Code(Head(b))
    ELSE StrLess(Tail(a), Tail(b))

\* str(i) for i >= 0.
RECURSIVE IntToStr(_)
IntToStr(i) ==
    IF i < 10 THEN <<Digits[i + 1]>>
    ELSE IntToStr(i \div 10) \o <<Digits[(i % 10) + 1]>>

\* x or "" for a text or None.
OrEmpty(x) == IF x = NULL \/ x = << >> THEN << >> ELSE x

----------------------------------------------------------------------------
(* Farm-name anonymization *)

\* hashlib.sha256(b).hexdigest(), idealised as collision-free: the digest is
\* the tagged preimage.
Sha256Hex(b) == <<"sha256:">> \o b

magpantay == <<"m","a","g","p","a","n","t","a","y">>
samabaco == <<"s","a","m","a","b","a","c","o">>
KFarm == <<"K","-","f","a","r","m">>
JFarm == <<"J","-","f","a","r","m">>

\* The digests of lines 46-47 are those of "magpantay" and "samabaco".
PROTECTED_HASH_TO_ALIAS ==
    [h \in {Sha256Hex(magpantay), Sha256Hex(samabaco)} |->
        IF h = Sha256Hex(magpantay) THEN KFarm ELSE JFarm]

sha256_lower(s) == Sha256Hex(str_lower(OrEmpty(s)))

\* An anonymization without the table lookup.
anonymize_passthrough(actual) == OrEmpty(actual)

\* anonymize_farm_name, lines 53-56
anonymize_farm_name(actual) ==
    LET h == sha256_lower(OrEmpty(actual))
    IN  IF h \in DOMAIN PROTECTED_HASH_TO_ALIAS
        THEN PROTECTED_HASH_TO_ALIAS[h]
        ELSE OrEmpty(actual)

----------------------------------------------------------------------------
(* Python dict: insertion-ordered keys and the key -> value map *)

EmptyDict == [keys |-> << >>, at |-> << >>]

Has(d, k) == \E i \in DOMAIN d.keys : d.keys[i] = k

Get(d, k) == d.at[CHOOSE i \in DOMAIN d.keys : d.keys[i] = k]

\* d[k] = v
SetItem(d, k, v) ==
    IF Has(d, k)
    THEN [d EXCEPT !.at[CHOOSE i \in DOMAIN d.keys : d.keys[i] = k] = v]
    ELSE [keys |-> Append(d.keys, k), at |-> Append(d.at, v)]

\* d.get(k, default)
GetOr(d, k, default) == IF Has(d, k) THEN Get(d, k) ELSE default

KeySet(d) == {d.keys[i] : i \in DOMAIN d.keys}

----------------------------------------------------------------------------
(* Alias directory *)

\* SELECT DISTINCT farm_name FROM animals WHERE COALESCE(farm_name,'')<>''
DistinctFarmNames(table) ==
    {r.farm_name : r \in {x \in table : OrEmpty(x.farm_name) # << >>}}

\* ORDER BY a text column (BINARY collation): the ascending list of S.
RECURSIVE OrderByText(_)
OrderByText(S) ==
    IF S = {} THEN << >>
    ELSE LET mn == CHOOSE x \in S : \A y \in S \ {x} : StrLess(x, y)
         IN  <<mn>> \o OrderByText(S \ {mn})

\* A numbering of suffixes that starts one lower.
FirstSuffixOne == 2 - 1

\* The first numeric suffix tried (i = 2, line 77).
FirstSuffix == 2

\* alias = f"{base}-{i}"
Suffixed(base, i) == base \o <<"-">> \o IntToStr(i)

\* A resolution that keeps the candidate whatever is assigned.
ResolveAliasNoLoop(a2i, actual, base, alias, i) == alias

\* The while loop of lines 78-80: the alias it leaves in `alias`.
RECURSIVE ResolveAlias(_, _, _, _, _)
ResolveAlias(a2i, actual, base, alias, i) ==
    IF Has(a2i, alias) /\ Get(a2i, alias) # actual
    THEN ResolveAlias(a2i, actual, base, Suffixed(base, i), i + 1)
    ELSE alias

\* One iteration of the for loop of lines 72-83 on the pair of dicts.
AliasStep(maps, actual) ==
    LET cand  == anonymize_farm_name(actual)
        base  == cand
        alias == ResolveAlias(maps.alias_to_internal, actual, base, cand, FirstSuffix)
    IN  [alias_to_internal |-> SetItem(maps.alias_to_internal, alias, actual),
         internal_to_alias |-> SetItem(maps.internal_to_alias, actual, alias)]

RECURSIVE AliasLoop(_, _)
AliasLoop(maps, names) ==
    IF names = << >> THEN maps
    ELSE AliasLoop(AliasStep(maps, Head(names)), Tail(names))

\* sorted(keys, key=lambda x: x.lower()): a stable sort.
RECURSIVE InsertByLower(_, _)
InsertByLower(sorted, x) ==
    IF sorted = << >> THEN <<x>>
    ELSE IF StrLess(str_lower(x), str_lower(Head(sorted)))
         THEN <<x>> \o sorted
         ELSE <<Head(sorted)>> \o InsertByLower(Tail(sorted), x)

RECURSIVE SortedByLower(_)
SortedByLower(keys) ==
    IF keys = << >> THEN << >>
    ELSE InsertByLower(SortedByLower(SubSeq(keys, 1, Len(keys) - 1)),
                       keys[Len(keys)])

\* The body of build_farm_alias_maps on the current content of animals.
build_farm_alias_maps_body(table) ==
    LET maps == AliasLoop([alias_to_internal |-> EmptyDict,
                           internal_to_alias |-> EmptyDict],
                          OrderByText(DistinctFarmNames(table)))
    IN  [aliases           |-> SortedByLower(maps.alias_to_internal.keys),
         alias_to_internal |-> maps.alias_to_internal,
         internal_to_alias |-> maps.internal_to_alias]

----------------------------------------------------------------------------
(* Calendar dates *)

\* date.toordinal() up to a constant: the day number of a proleptic
\* Gregorian date [y, m, d].
ToOrdinal(dt) ==
    LET y   == IF dt.m <= 2 THEN dt.y - 1 ELSE dt.y
        era == y \div 400
        yoe == y - era * 400
        mp  == IF dt.m > 2 THEN dt.m - 3 ELSE dt.m + 9
        doy == (153 * mp + 2) \div 5 + dt.d - 1
        doe == yoe * 365 + yoe \div 4 - yoe \div 100 + doy
    IN  era * 146097 + doe

\* date.fromordinal(), the inverse of ToOrdinal.
FromOrdinal(z) ==
    LET era == z \div 146097
        doe == z - era * 146097
        yoe == (doe - doe \div 1460 + doe \div 36524 - doe \div 146096) \div 365
        doy == doe - (365 * yoe + yoe \div 4 - yoe \div 100)
        mp  == (5 * doy + 2) \div 153
        d   == doy - (153 * mp + 2) \div 5 + 1
        m   == IF mp < 10 THEN mp + 3 ELSE mp - 9
        y   == yoe + era * 400
    IN  [y |-> IF m <= 2 THEN y + 1 ELSE y, m |-> m, d |-> d]

\* date - timedelta(days=n)
MinusDays(dt, n) == FromOrdinal(ToOrdinal(dt) - n)

\* "%0<w>d" % n
RECURSIVE ZeroPad(_, _)
ZeroPad(txt, w) == IF Len(txt) >= w THEN txt ELSE ZeroPad(<<"0">> \o txt, w)

\* date.isoformat(): "YYYY-MM-DD"
isoformat(dt) ==
    ZeroPad(IntToStr(dt.y), 4) \o <<"-">> \o ZeroPad(IntToStr(dt.m), 2)
        \o <<"-">> \o ZeroPad(IntToStr(dt.d), 2)

\* int(txt) for a text of decimal digits.
RECURSIVE StrToInt(_)
StrToInt(txt) ==
    IF txt = << >> THEN 0
    ELSE 10 * StrToInt(SubSeq(txt, 1, Len(txt) - 1))
            + (IndexIn(txt[Len(txt)], Digits) - 1)

\* pd.to_datetime(txt).date() for an ISO date text.
to_date(txt) ==
    [y |-> StrToInt(SubSeq(txt, 1, 4)),
     m |-> StrToInt(SubSeq(txt, 6, 7)),
     d |-> StrToInt(SubSeq(txt, 9, 10))]

\* strftime('%Y-%m', record_date)
strftime_Ym(txt) == SubSeq(txt, 1, 7)

\* The window length of lines 135 and 201: timedelta(days=365).
WindowDays == 365

\* (date.today() - timedelta(days=365)).isoformat()
Since(day) == isoformat(MinusDays(day, WindowDays))

----------------------------------------------------------------------------
(* Numbers.  A nullable number is << >> (NULL / None / NaN) or <<v>>. *)

NoNumber == << >>

\* n / d cut to an integer.
TruncDiv(n, d) == n \div d

\* The integer nearest to n / d, ties to the even one (numpy / pandas round).
RoundHalfEvenDiv(n, d) ==
    LET q == n \div d
        r == n % d
    IN  IF 2 * r < d THEN q
        ELSE IF 2 * r > d THEN q + 1
        ELSE IF q % 2 = 0 THEN q ELSE q + 1

\* The integer nearest to n / d, ties away from zero (SQLite ROUND), n >= 0.
RoundHalfUpDiv(n, d) ==
    LET q == n \div d
        r == n % d
    IN  IF 2 * r < d THEN q ELSE q + 1

RECURSIVE SumOver(_, _)
SumOver(f, I) ==
    IF I = {} THEN 0
    ELSE LET i == CHOOSE j \in I : TRUE
         IN  f[i] + SumOver(f, I \ {i})

RECURSIVE OrderByInt(_)
OrderByInt(S) ==
    IF S = {} THEN << >>
    ELSE LET mn == CHOOSE x \in S : \A y \in S : x <= y
         IN  <<mn>> \o OrderByInt(S \ {mn})

Max(S) == CHOOSE x \in S : \A y \in S : y <= x
Min(S) == CHOOSE x \in S : \A y \in S : x <= y

----------------------------------------------------------------------------
(* Yield aggregation: the queries, over row ids of milk_yield *)

YieldOf == [i \in DOMAIN milk_yield |-> milk_yield[i].yield_value]

\* milk_yield m JOIN animals a ON m.ear_tag=a.ear_tag WHERE a.farm_name=?
FarmScope(farm) ==
    {i \in DOMAIN milk_yield :
        \E a \in animals : /\ a.ear_tag = milk_yield[i].ear_tag
                           /\ a.farm_name # NULL
                           /\ farm # NULL
                           /\ a.farm_name = farm}

\* milk_yield WHERE ear_tag=?
AnimalScope(tag) == {i \in DOMAIN milk_yield : milk_yield[i].ear_tag = tag}

\* COALESCE(SUM(yield_value),0)
TotalLiters(I) == IF I = {} THEN 0 ELSE SumOver(YieldOf, I)

\* COUNT(DISTINCT record_date)
DistinctDates(I) == Cardinality({milk_yield[i].record_date : i \in I})

\* COUNT(DISTINCT ear_tag)
DistinctTags(I) == Cardinality({milk_yield[i].ear_tag : i \in I})

InYear(I, yr) == {i \in I : milk_yield[i].record_year = yr}

\* An average cut, not rounded, to one decimal.
AvgDailyTrunc(liters, days) ==
    IF days = 0 THEN NoNumber ELSE <<TruncDiv(liters, days)>>

\* (liters / days).round(1), in tenths; NaN or inf when days = 0.
AvgDaily(liters, days) ==
    IF days = 0 THEN NoNumber ELSE <<RoundHalfEvenDiv(liters, days)>>

\* GROUP BY record_year ORDER BY record_year
Years(I) == OrderByInt({milk_yield[i].record_year : i \in I})

\* df_year of farm_yield_summary (lines 120-133)
FarmYearBreakdown(I) ==
    [k \in DOMAIN Years(I) |->
        LET rows == InYear(I, Years(I)[k])
        IN  [year      |-> Years(I)[k],
             liters    |-> SumOver(YieldOf, rows),
             days      |-> DistinctDates(rows),
             cows      |-> DistinctTags(rows),
             avg_daily |-> AvgDaily(SumOver(YieldOf, rows), DistinctDates(rows))]]

\* df_year of animal_yield_summary (lines 188-199)
AnimalYearBreakdown(I) ==
    [k \in DOMAIN Years(I) |->
        LET rows == InYear(I, Years(I)[k])
        IN  [year      |-> Years(I)[k],
             liters    |-> SumOver(YieldOf, rows),
             days      |-> DistinctDates(rows),
             avg_daily |-> AvgDaily(SumOver(YieldOf, rows), DistinctDates(rows))]]

\* ... AND record_date>=?   (a comparison of texts)
SinceFilter(I, since) ==
    {i \in I : ~StrLess(milk_yield[i].record_date, since)}

InMonth(I, month) == {i \in I : strftime_Ym(milk_yield[i].record_date) = month}

\* GROUP BY month ORDER BY month
Months(I) == OrderByText({strftime_Ym(milk_yield[i].record_date) : i \in I})

\* A rounding of liters whose ties go up.
RoundLitersHalfUp(tenths) == RoundHalfUpDiv(tenths, 10)

\* df["liters"].round(0).astype(int), from tenths of a liter
RoundLiters(tenths) == RoundHalfEvenDiv(tenths, 10)

\* df_12mo before the merge: month, liters
TrendLiters(I) ==
    [k \in DOMAIN Months(I) |->
        [month  |-> Months(I)[k],
         liters |-> RoundLiters(SumOver(YieldOf, InMonth(I, Months(I)[k])))]]

\* df_count of farm_yield_summary: COUNT(DISTINCT m.ear_tag) per month
FarmSessions(I) ==
    [k \in DOMAIN Months(I) |->
        [month    |-> Months(I)[k],
         sessions |-> DistinctTags(InMonth(I, Months(I)[k]))]]

\* df_sessions of animal_yield_summary: COUNT(*) per month
AnimalSessions(I) ==
    [k \in DOMAIN Months(I) |->
        [month    |-> Months(I)[k],
         sessions |-> Cardinality(InMonth(I, Months(I)[k]))]]

\* df_12mo.merge(df_count, on="month", how="left").fillna(0), sessions as int
MergeSessions(df_12mo, df_count) ==
    [k \in DOMAIN df_12mo |->
        [month    |-> df_12mo[k].month,
         liters   |-> df_12mo[k].liters,
         sessions |->
            IF \E j \in DOMAIN df_count : df_count[j].month = df_12mo[k].month
            THEN df_count[CHOOSE j \in DOMAIN df_count :
                              df_count[j].month = df_12mo[k].month].sessions
            ELSE 0]]

\* The body of farm_yield_summary on the current storage and date.
farm_yield_summary_body(internal_farm_name) ==
    LET I     == FarmScope(internal_farm_name)
        since == Since(today)
        W     == SinceFilter(I, since)
    IN  [total   |-> TotalLiters(I),
         days    |-> DistinctDates(I),
         df_year |-> FarmYearBreakdown(I),
         df_12mo |-> MergeSessions(TrendLiters(W), FarmSessions(W))]

\* MIN(record_date), MAX(record_date): NULL over no rows
MinDate(I) ==
    IF I = {} THEN NULL
    ELSE Head(OrderByText({milk_yield[i].record_date : i \in I}))
MaxDate(I) ==
    IF I = {} THEN NULL
    ELSE LET s == OrderByText({milk_yield[i].record_date : i \in I})
         IN  s[Len(s)]

\* A span that does not count the first day.
DurationNoPlusOne(mn, mx, days) ==
    IF mn = NULL \/ mx = NULL THEN days
    ELSE ToOrdinal(to_date(mx)) - ToOrdinal(to_date(mn))

\* A fallback that is the inclusive span of no days, not the day count.
DurationEmptySpan(mn, mx, days) ==
    IF mn = NULL \/ mx = NULL THEN 0 + 1
    ELSE (ToOrdinal(to_date(mx)) - ToOrdinal(to_date(mn))) + 1

\* The try / except of lines 181-186: pd.to_datetime(None) is None, and
\* None.date() raises, which the except turns into `days`.
Duration(mn, mx, days) ==
    IF mn = NULL \/ mx = NULL THEN days
    ELSE (ToOrdinal(to_date(mx)) - ToOrdinal(to_date(mn))) + 1

\* SELECT ROUND(AVG(yield_value),1), MAX(yield_value), MIN(yield_value)
Stats(I) ==
    IF I = {}
    THEN [avg_daily |-> NoNumber, max_yield |-> NoNumber, min_yield |-> NoNumber]
    ELSE [avg_daily |-> <<RoundHalfUpDiv(SumOver(YieldOf, I), Cardinality(I))>>,
          max_yield |-> <<Max({YieldOf[i] : i \in I})>>,
          min_yield |-> <<Min({YieldOf[i] : i \in I})>>]

\* The body of animal_yield_summary on the current storage and date.
animal_yield_summary_body(ear_tag) ==
    LET I     == AnimalScope(ear_tag)
        since == Since(today)
        W     == SinceFilter(I, since)
    IN  [total    |-> TotalLiters(I),
         days     |-> DistinctDates(I),
         duration |-> Duration(MinDate(I), MaxDate(I), DistinctDates(I)),
         df_year  |-> AnimalYearBreakdown(I),
         df_12mo  |-> MergeSessions(TrendLiters(W), AnimalSessions(W)),
         stats    |-> Stats(I)]

----------------------------------------------------------------------------
(* State: values before any call *)

NoCall == [fn |-> "none"]
NoUi == [stage |-> "none"]
NotReturned == <<"<not returned>">>
NotCached == << >>

\* A memo with no entry: the function of empty domain.
NoEntries == << >>

\* The day the dashboard runs on.
Today0 == [y |-> 2024, m |-> 3, d |-> 1]

----------------------------------------------------------------------------
(* Inputs *)

str_upper(s) ==
    [i \in DOMAIN s |->
        IF IndexIn(s[i], LowerCase) > 0
        THEN UpperCase[IndexIn(s[i], LowerCase)]
        ELSE s[i]]

Capitalized(s) == [s EXCEPT ![1] = str_upper(<<s[1]>>)[1]]

\* Every casing of a lower-case word.
Casings(word) ==
    {[i \in DOMAIN word |-> IF i \in U THEN str_upper(<<word[i]>>)[1] ELSE word[i]] :
        U \in SUBSET DOMAIN word}

Alpha == <<"A","l","p","h","a">>

\* Arguments of anonymize_farm_name: every casing of the two protected names,
\* None, "", the aliases themselves, near misses and an ordinary name.
AnonInputs ==
    Casings(magpantay) \cup Casings(samabaco) \cup
    {NULL, << >>, KFarm, JFarm, Alpha, str_upper(Alpha),
     SubSeq(magpantay, 1, 8), magpantay \o <<"y">>, Suffixed(samabaco, 2),
     <<" ">> \o samabaco}

\* Values of animals.farm_name in a snapshot.
FarmNameUniverse ==
    {KFarm, Suffixed(KFarm, 2), Suffixed(KFarm, 3),
     str_upper(magpantay), Capitalized(magpantay), magpantay,
     JFarm, Capitalized(samabaco), Alpha, str_upper(Alpha), NULL, << >>}

\* The most distinct farm_name values in a snapshot.
MaxFarms == 4

\* animals.ear_tag of the k-th animal.
EarTag(k) == <<"T">> \o IntToStr(k)

\* A snapshot of table animals with one animal per farm_name of S, and a
\* second animal on the farm named Alpha.
RECURSIVE AnimalsOf(_, _)
AnimalsOf(S, k) ==
    IF S = {} THEN {}
    ELSE LET nm == CHOOSE x \in S : TRUE
         IN  {[ear_tag |-> EarTag(k), farm_name |-> nm]}
             \cup (IF nm = Alpha
                   THEN {[ear_tag |-> EarTag(k + 100), farm_name |-> nm]}
                   ELSE {})
             \cup AnimalsOf(S \ {nm}, k + 1)

AliasSnapshots ==
    {AnimalsOf(S, 1) : S \in {X \in SUBSET FarmNameUniverse : Cardinality(X) <= MaxFarms}}

----------------------------------------------------------------------------
(* anonymize_farm_name applied to an input *)

InitAnon ==
    /\ actual_name \in AnonInputs
    /\ anon_ret = NotReturned
    /\ animals = {}
    /\ milk_yield = << >>
    /\ today = Today0
    /\ cache_alias = NotCached
    /\ cache_farm = NoEntries
    /\ cache_animal = NoEntries
    /\ cache_load = NoEntries
    /\ ret = NoCall
    /\ ui = NoUi

Anonymize ==
    /\ anon_ret' = anonymize_farm_name(actual_name)
    /\ UNCHANGED <<animals, milk_yield, today, cache_alias, cache_farm,
                   cache_animal, cache_load, ret, ui, actual_name>>

NextAnon == Anonymize

SpecAnon == InitAnon /\ [][NextAnon]_vars

----------------------------------------------------------------------------
(* The memoized functions (st.cache_data: keyed by the arguments only) *)

\* build_farm_alias_maps(), lines 58-86
CallBuildFarmAliasMaps ==
    /\ IF cache_alias # NotCached
       THEN /\ ret' = [fn |-> "build_farm_alias_maps", val |-> cache_alias[1]]
            /\ UNCHANGED cache_alias
       ELSE LET v == build_farm_alias_maps_body(animals)
            IN  /\ ret' = [fn |-> "build_farm_alias_maps", val |-> v]
                /\ cache_alias' = <<v>>
    /\ UNCHANGED <<animals, milk_yield, today, cache_farm, cache_animal,
                   cache_load, ui, actual_name, anon_ret>>

\* farm_yield_summary(internal_farm_name), lines 104-160
CallFarmYieldSummary(arg) ==
    /\ IF arg \in DOMAIN cache_farm
       THEN /\ ret' = [fn |-> "farm_yield_summary", arg |-> arg,
                       val |-> cache_farm[arg]]
            /\ UNCHANGED cache_farm
       ELSE LET v == farm_yield_summary_body(arg)
            IN  /\ ret' = [fn |-> "farm_yield_summary", arg |-> arg, val |-> v]
                /\ cache_farm' = cache_farm @@ (arg :> v)
    /\ UNCHANGED <<animals, milk_yield, today, cache_alias, cache_animal,
                   cache_load, ui, actual_name, anon_ret>>

\* animal_yield_summary(ear_tag), lines 162-231
CallAnimalYieldSummary(arg) ==
    /\ IF arg \in DOMAIN cache_animal
       THEN /\ ret' = [fn |-> "animal_yield_summary", arg |-> arg,
                       val |-> cache_animal[arg]]
            /\ UNCHANGED cache_animal
       ELSE LET v == animal_yield_summary_body(arg)
            IN  /\ ret' = [fn |-> "animal_yield_summary", arg |-> arg, val |-> v]
                /\ cache_animal' = cache_animal @@ (arg :> v)
    /\ UNCHANGED <<animals, milk_yield, today, cache_alias, cache_farm,
                   cache_load, ui, actual_name, anon_ret>>

----------------------------------------------------------------------------
(* build_farm_alias_maps applied to a snapshot of animals *)

InitAlias ==
    /\ animals \in AliasSnapshots
    /\ milk_yield = << >>
    /\ today = Today0
    /\ cache_alias = NotCached
    /\ cache_farm = NoEntries
    /\ cache_animal = NoEntries
    /\ cache_load = NoEntries
    /\ ret = NoCall
    /\ ui = NoUi
    /\ actual_name = NULL
    /\ anon_ret = NotReturned

NextAlias == CallBuildFarmAliasMaps

SpecAlias == InitAlias /\ [][NextAlias]_vars

----------------------------------------------------------------------------
(* The yield summaries applied to a snapshot of storage *)

FarmA == <<"A">>
FarmB == <<"B">>

\* Two animals on farm A, one on farm B.
AggAnimals ==
    {[ear_tag |-> EarTag(1), farm_name |-> FarmA],
     [ear_tag |-> EarTag(2), farm_name |-> FarmA],
     [ear_tag |-> EarTag(3), farm_name |-> FarmB]}

\* Record dates: 366 and 365 days before Today0, two days of June 2023, a
\* day of January 2024, Today0 and the day after it.
RecordDates ==
    {isoformat(MinusDays(Today0, WindowDays + 1)),
     isoformat(MinusDays(Today0, WindowDays)),
     isoformat([y |-> 2023, m |-> 6, d |-> 1]),
     isoformat([y |-> 2023, m |-> 6, d |-> 3]),
     isoformat([y |-> 2024, m |-> 1, d |-> 15]),
     isoformat(Today0),
     isoformat(MinusDays(Today0, 0 - 1))}

\* Yield values in tenths of a liter.  The first animal has 5.0 or 7.0 L on
\* any date and 10.0 L on 2024-01-15; the second has 12.5 L on the two days
\* around the start of the period, on 2024-01-15 and on the day after
\* Today0; the third has 10.0 L on 2024-01-15.
YieldValues == {50, 70}

YieldRow(tag, dt, y) ==
    [ear_tag |-> tag, record_date |-> dt,
     record_year |-> to_date(dt).y, yield_value |-> y]

RowUniverse ==
    {YieldRow(EarTag(1), dt, y) : dt \in RecordDates, y \in YieldValues}
    \cup {YieldRow(EarTag(1), isoformat([y |-> 2024, m |-> 1, d |-> 15]), 100)}
    \cup {YieldRow(EarTag(2), dt, 125) :
            dt \in {isoformat(MinusDays(Today0, WindowDays + 1)),
                    isoformat(MinusDays(Today0, WindowDays)),
                    isoformat([y |-> 2024, m |-> 1, d |-> 15]),
                    isoformat(MinusDays(Today0, 0 - 1))}}
    \cup {YieldRow(EarTag(3), isoformat([y |-> 2024, m |-> 1, d |-> 15]), 100)}

RECURSIVE SetToSeq(_)
SetToSeq(S) ==
    IF S = {} THEN << >>
    ELSE LET x == CHOOSE y \in S : TRUE IN <<x>> \o SetToSeq(S \ {x})

RowList == SetToSeq(RowUniverse)

\* The most rows of milk_yield in a snapshot.
MaxRows == 3

\* Every content of milk_yield of at most MaxRows rows, rows in one order
\* (no query depends on the order of the rows).
YieldTables ==
    UNION {{[k \in 1 .. n |-> RowList[f[k]]] :
               f \in {g \in [1 .. n -> DOMAIN RowList] :
                         \A k \in 1 .. (n - 1) : g[k] <= g[k + 1]}} :
           n \in 0 .. MaxRows}

FarmArgs == {FarmA, FarmB}
TagArgs == {EarTag(1)}

InitAgg ==
    /\ animals = AggAnimals
    /\ milk_yield \in YieldTables
    /\ today = Today0
    /\ cache_alias = NotCached
    /\ cache_farm = NoEntries
    /\ cache_animal = NoEntries
    /\ cache_load = NoEntries
    /\ ret = NoCall
    /\ ui = NoUi
    /\ actual_name = NULL
    /\ anon_ret = NotReturned

NextAgg ==
    \/ \E f \in FarmArgs : CallFarmYieldSummary(f)
    \/ \E t \in TagArgs : CallAnimalYieldSummary(t)

SpecAgg == InitAgg /\ [][NextAgg]_vars

----------------------------------------------------------------------------
(* The page script: sidebar selection, header, queries, export file name *)

PickFarm == <<"-", "-", " ", "p", "i", "c", "k", " ", "a", " ", "f", "a", "r", "m", " ", "-", "-">>
PickCow == <<"-", "-", " ", "p", "i", "c", "k", " ", "a", " ", "c", "o", "w", " ", "-", "-">>
ReportSuffix == <<"_", "a", "n", "n", "u", "a", "l", "_", "r", "e", "p", "o", "r", "t",
                   ".", "c", "s", "v">>

\* The body of load_animals: the ear tags of a farm, ORDER BY ear_tag.
load_animals_body(internal_farm_name) ==
    OrderByText({a.ear_tag : a \in {x \in animals :
                    /\ x.farm_name # NULL
                    /\ internal_farm_name # NULL
                    /\ x.farm_name = internal_farm_name}})

SeqToSet(q) == {q[k] : k \in DOMAIN q}

\* st.cache_data around each of the four functions: the value returned and
\* the memo afterwards.
MemoAlias == IF cache_alias # NotCached THEN cache_alias[1]
             ELSE build_farm_alias_maps_body(animals)

MemoGet(cache, arg, computed) == IF arg \in DOMAIN cache THEN cache[arg] ELSE computed

MemoPut(cache, arg, computed) ==
    IF arg \in DOMAIN cache THEN cache ELSE cache @@ (arg :> computed)

\* One run of the script, lines 236-414, with the widgets' values: the farm
\* chosen in the selector, the view mode, the cow chosen in the cow selector.
RunScript(farm_alias, mode, cow) ==
    LET built         == MemoAlias
        farm_internal == GetOr(built.alias_to_internal, farm_alias, << >>)
        df_animals    == MemoGet(cache_load, farm_internal,
                                 load_animals_body(farm_internal))
    IN  /\ farm_alias \in {PickFarm} \cup SeqToSet(built.aliases)
        /\ cache_alias' = <<built>>
        /\ IF farm_alias = PickFarm
           THEN /\ ui' = [stage |-> "pick_a_farm", options |-> built.aliases,
                          farm_internal |-> NULL, header |-> NULL,
                          file_name |-> NULL]
                /\ UNCHANGED <<cache_farm, cache_load, cache_animal>>
           ELSE IF mode = "Farm Overview"
           THEN /\ ui' = [stage |-> "farm_overview", options |-> built.aliases,
                          farm_internal |-> farm_internal, header |-> farm_alias,
                          file_name |-> farm_alias \o ReportSuffix]
                /\ cache_farm' = MemoPut(cache_farm, farm_internal,
                                         farm_yield_summary_body(farm_internal))
                /\ cache_load' = MemoPut(cache_load, farm_internal, df_animals)
                /\ UNCHANGED cache_animal
           ELSE /\ cow \in {PickCow} \cup SeqToSet(df_animals)
                /\ cache_load' = MemoPut(cache_load, farm_internal, df_animals)
                /\ UNCHANGED cache_farm
                /\ IF cow = PickCow
                   THEN /\ ui' = [stage |-> "pick_a_cow", options |-> built.aliases,
                                  farm_internal |-> farm_internal, header |-> NULL,
                                  file_name |-> NULL]
                        /\ UNCHANGED cache_animal
                   ELSE /\ ui' = [stage |-> "cow_detail", options |-> built.aliases,
                                  farm_internal |-> farm_internal, header |-> cow,
                                  file_name |-> farm_alias \o <<"_">> \o cow
                                                    \o ReportSuffix]
                        /\ cache_animal' = MemoPut(cache_animal, cow,
                                                   animal_yield_summary_body(cow))
        /\ UNCHANGED <<animals, milk_yield, today, ret, actual_name, anon_ret>>

\* Farm names of a snapshot the page runs on.
PageFarmNames ==
    {KFarm, str_upper(magpantay), magpantay, Capitalized(samabaco), Alpha}

\* The most distinct farm_name values in a snapshot the page runs on.
MaxPageFarms == 2

PageSnapshots ==
    {AnimalsOf(S, 1) : S \in {X \in SUBSET PageFarmNames : Cardinality(X) <= MaxPageFarms}}

\* Yield records of the first animal.
PageYield ==
    <<YieldRow(EarTag(1), isoformat([y |-> 2023, m |-> 6, d |-> 1]), 50),
      YieldRow(EarTag(1), isoformat([y |-> 2024, m |-> 1, d |-> 15]), 125)>>

AllTags == {a.ear_tag : a \in UNION PageSnapshots}

InitPage ==
    /\ animals \in PageSnapshots
    /\ milk_yield = PageYield
    /\ today = Today0
    /\ cache_alias = NotCached
    /\ cache_farm = NoEntries
    /\ cache_animal = NoEntries
    /\ cache_load = NoEntries
    /\ ret = NoCall
    /\ ui = NoUi
    /\ actual_name = NULL
    /\ anon_ret = NotReturned

\* Every text the farm selector can hold for these snapshots.
SelectableAliases ==
    {PickFarm} \cup PageFarmNames \cup {KFarm, JFarm}
        \cup {Suffixed(b, k) : b \in {KFarm, JFarm}, k \in 2 .. (MaxPageFarms + 1)}

NextPage ==
    \E farm_alias \in SelectableAliases,
       mode \in {"Farm Overview", "Individual Cow"},
       cow \in {PickCow} \cup AllTags :
        RunScript(farm_alias, mode, cow)

SpecPage == InitPage /\ [][NextPage]_vars

----------------------------------------------------------------------------
(* The memoized functions while storage is written to by its owner *)

\* Rows the owner of the storage may add to milk_yield.
NewRows ==
    {YieldRow(EarTag(1), isoformat([y |-> 2024, m |-> 1, d |-> 15]), 100),
     YieldRow(EarTag(2), isoformat([y |-> 2024, m |-> 1, d |-> 15]), 125),
     YieldRow(EarTag(3), isoformat([y |-> 2023, m |-> 6, d |-> 1]), 50)}

\* Animals the owner of the storage may add to animals.
NewAnimals ==
    {[ear_tag |-> EarTag(4), farm_name |-> Capitalized(magpantay)],
     [ear_tag |-> EarTag(5), farm_name |-> KFarm]}

\* The most rows the owner adds to milk_yield.
MaxWrites == 2

Init ==
    /\ animals = AggAnimals
    /\ milk_yield = << >>
    /\ today = Today0
    /\ cache_alias = NotCached
    /\ cache_farm = NoEntries
    /\ cache_animal = NoEntries
    /\ cache_load = NoEntries
    /\ ret = NoCall
    /\ ui = NoUi
    /\ actual_name = NULL
    /\ anon_ret = NotReturned

\* A write to milk_yield by the owner of the storage (not by this program).
InsertYield(row) ==
    /\ Len(milk_yield) < MaxWrites
    /\ milk_yield' = Append(milk_yield, row)
    /\ ret' = NoCall
    /\ UNCHANGED <<animals, today, cache_alias, cache_farm, cache_animal,
                   cache_load, ui, actual_name, anon_ret>>

\* A write to animals by the owner of the storage.
InsertAnimal(row) ==
    /\ \A a \in animals : a.ear_tag # row.ear_tag
    /\ animals' = animals \cup {row}
    /\ ret' = NoCall
    /\ UNCHANGED <<milk_yield, today, cache_alias, cache_farm, cache_animal,
                   cache_load, ui, actual_name, anon_ret>>

Next ==
    \/ \E row \in NewRows : InsertYield(row)
    \/ \E row \in NewAnimals : InsertAnimal(row)
    \/ CallBuildFarmAliasMaps
    \/ \E f \in FarmArgs : CallFarmYieldSummary(f)
    \/ \E t \in TagArgs : CallAnimalYieldSummary(t)

Spec == Init /\ [][Next]_vars

----------------------------------------------------------------------------
(* Properties of the anonymization and of the alias directory *)

\* s is base (a lower-case word) in some casing.
IsCasingOf(s, base) ==
    /\ Len(s) = Len(base)
    /\ \A i \in DOMAIN base :
          \/ s[i] = base[i]
          \/ s[i] = UpperCase[IndexIn(base[i], LowerCase)]

IsProtectedName(s) == IsCasingOf(s, magpantay) \/ IsCasingOf(s, samabaco)

\* C2: anonymize_farm_name returns "K-farm" for every casing of "magpantay"
\* and "J-farm" for every casing of "samabaco", the empty string for None or
\* "", and every other input unchanged.
C2_AnonymizeByCasing ==
    anon_ret # NotReturned =>
        /\ IsCasingOf(actual_name, magpantay) => anon_ret = KFarm
        /\ IsCasingOf(actual_name, samabaco) => anon_ret = JFarm
        /\ (actual_name = NULL \/ actual_name = << >>) => anon_ret = << >>
        /\ (~IsProtectedName(actual_name) /\ actual_name # NULL)
              => anon_ret = actual_name

\* C2 happens: a casing of "magpantay" with upper- and lower-case letters
\* has been anonymized to "K-farm".
C2_Witness ==
    /\ anon_ret = KFarm
    /\ IsCasingOf(actual_name, magpantay)
    /\ actual_name # magpantay
    /\ actual_name # str_upper(magpantay)

RealNames == DistinctFarmNames(animals)

BuiltMaps == ret.fn = "build_farm_alias_maps"

\* C1: the two maps build_farm_alias_maps returns are exact inverses over the
\* snapshot: the real names are exactly the non-empty farm names of storage,
\* each has one alias, no alias is shared, and the two round trips are the
\* identity.
C1_AliasMapsAreInverse ==
    BuiltMaps =>
        LET a2i == ret.val.alias_to_internal
            i2a == ret.val.internal_to_alias
        IN  /\ KeySet(i2a) = RealNames
            /\ Len(i2a.keys) = Cardinality(RealNames)
            /\ Len(a2i.keys) = Cardinality(KeySet(a2i))
            /\ {Get(a2i, a) : a \in KeySet(a2i)} = RealNames
            /\ Cardinality(KeySet(a2i)) = Cardinality(RealNames)
            /\ \A a \in KeySet(a2i) :
                  Has(i2a, Get(a2i, a)) /\ Get(i2a, Get(a2i, a)) = a
            /\ \A r \in RealNames :
                  Has(a2i, Get(i2a, r)) /\ Get(a2i, Get(i2a, r)) = r
            /\ {ret.val.aliases[k] : k \in DOMAIN ret.val.aliases} = KeySet(a2i)

\* C1 happens: the maps were built from a snapshot that holds a protected
\* name together with the real names "K-farm" and "K-farm-2".
C1_Witness ==
    /\ BuiltMaps
    /\ KFarm \in RealNames
    /\ Suffixed(KFarm, 2) \in RealNames
    /\ \E r \in RealNames : IsCasingOf(r, magpantay)

\* The alias the anonymization gives a real name before any suffix.
Candidate(r) ==
    IF IsCasingOf(r, magpantay) THEN KFarm
    ELSE IF IsCasingOf(r, samabaco) THEN JFarm
    ELSE r

\* The aliases given to the real names that sort before r.
AssignedBefore(r) ==
    {Get(ret.val.internal_to_alias, q) : q \in {x \in RealNames : StrLess(x, r)}}

\* C9: names are processed in ascending order; a name gets its candidate
\* alias when no earlier name has it, and otherwise candidate-k for the
\* smallest k >= 2 such that no earlier name has candidate-k.
C9_SuffixIsSmallestFree ==
    BuiltMaps =>
        \A r \in RealNames :
            LET taken == AssignedBefore(r)
                cand  == Candidate(r)
                alias == Get(ret.val.internal_to_alias, r)
            IN  IF cand \notin taken
                THEN alias = cand
                ELSE \E k \in 2 .. (Cardinality(taken) + 2) :
                        /\ alias = Suffixed(cand, k)
                        /\ alias \notin taken
                        /\ \A j \in 2 .. (k - 1) : Suffixed(cand, j) \in taken

\* C9 happens: a protected name got "K-farm-3" because "K-farm" and
\* "K-farm-2" were assigned before it.
C9_Witness ==
    /\ BuiltMaps
    /\ \E r \in RealNames :
          /\ IsCasingOf(r, magpantay)
          /\ Get(ret.val.internal_to_alias, r) = Suffixed(KFarm, 3)
          /\ {KFarm, Suffixed(KFarm, 2)} \subseteq AssignedBefore(r)

----------------------------------------------------------------------------
(* Properties of the yield summaries *)

FarmSummary == ret.fn = "farm_yield_summary"
AnimalSummary == ret.fn = "animal_yield_summary"

\* The rows of milk_yield in the scope of the call that returned.
Scope == IF FarmSummary THEN FarmScope(ret.arg) ELSE AnimalScope(ret.arg)

DayOf(i) == ToOrdinal(to_date(milk_yield[i].record_date))

MonthOf(i) ==
    [y |-> to_date(milk_yield[i].record_date).y,
     m |-> to_date(milk_yield[i].record_date).m]

\* The month "YYYY-MM" of a trend bucket as a year and a month number.
BucketMonth(b) ==
    [y |-> StrToInt(SubSeq(b.month, 1, 4)), m |-> StrToInt(SubSeq(b.month, 6, 7))]

\* The rows whose date is in the 365-day period that ends today.
InPeriod(I) ==
    {i \in I : /\ ToOrdinal(today) - WindowDays <= DayOf(i)
               /\ DayOf(i) <= ToOrdinal(today)}

\* The rows dated on or after today - 365 days.
NotOlder(I) == {i \in I : ToOrdinal(today) - WindowDays <= DayOf(i)}

Abs(x) == IF x < 0 THEN 0 - x ELSE x

\* v is n / d rounded to a nearest integer.
IsNearest(v, n, d) == 2 * Abs(v * d - n) <= d

\* The trend has exactly the months of the rows J, in ascending order, and
\* each bucket is computed from the rows of J in its month.
TrendIsOver(J) ==
    LET t == ret.val.df_12mo
    IN  /\ {BucketMonth(t[k]) : k \in DOMAIN t} = {MonthOf(i) : i \in J}
        /\ Len(t) = Cardinality({MonthOf(i) : i \in J})
        /\ \A k \in DOMAIN t :
              LET rows == {i \in J : MonthOf(i) = BucketMonth(t[k])}
              IN  /\ IsNearest(t[k].liters, SumOver(YieldOf, rows), 10)
                  /\ t[k].sessions =
                        IF FarmSummary
                        THEN Cardinality({milk_yield[i].ear_tag : i \in rows})
                        ELSE Cardinality(rows)

\* C4: the trend of either summary is computed only from the records dated
\* in the 365-day period ending today (today-365 <= record_date <= today);
\* a month is a bucket only if it has such a record.
C4_TrendOnlyFromPeriod ==
    (FarmSummary \/ AnimalSummary) => TrendIsOver(InPeriod(Scope))

Jan15 == isoformat([y |-> 2024, m |-> 1, d |-> 15])
Jun01 == isoformat([y |-> 2023, m |-> 6, d |-> 1])
Jun03 == isoformat([y |-> 2023, m |-> 6, d |-> 3])

\* The farm of the example of C5 has been summarized: two animals of farm A,
\* one record each on 2024-01-15, of 10.0 L and 12.5 L.
SameDayExample ==
    /\ FarmSummary
    /\ ret.arg = FarmA
    /\ Len(milk_yield) = 2
    /\ {milk_yield[1], milk_yield[2]} =
          {YieldRow(EarTag(1), Jan15, 100), YieldRow(EarTag(2), Jan15, 125)}

\* What C5 says of every farm summary, but for the rounding of a tie: the
\* unrounded total, the distinct dates, and the buckets over the records
\* dated on or after today - 365 days.
FarmSummaryShape ==
    /\ ret.val.total = SumOver(YieldOf, Scope)
    /\ ret.val.days = Cardinality({DayOf(i) : i \in Scope})
    /\ TrendIsOver(NotOlder(Scope))

\* C5 as stated: liters is the month's sum rounded to the nearest integer,
\* and the example gives lactation_days=1, total_liters=22.5 and the bucket
\* 2024-01 with liters=23 and sessions=2.
C5_AsStated ==
    FarmSummary =>
        /\ FarmSummaryShape
        /\ SameDayExample =>
              /\ ret.val.days = 1
              /\ ret.val.total = 225
              /\ ret.val.df_12mo = <<[month |-> strftime_Ym(Jan15), liters |-> 23,
                                      sessions |-> 2]>>

\* C5 amended: liters is the month's sum rounded to the nearest integer, a
\* tie going to the even integer, so that the example gives
\* lactation_days=1, total_liters=22.5 and the bucket 2024-01 with liters=22
\* and sessions=2.
C5_TiesToEven ==
    FarmSummary =>
        /\ FarmSummaryShape
        /\ \A k \in DOMAIN ret.val.df_12mo :
              LET b    == ret.val.df_12mo[k]
                  rows == {i \in NotOlder(Scope) : MonthOf(i) = BucketMonth(b)}
              IN  (2 * Abs(10 * b.liters - SumOver(YieldOf, rows)) = 10)
                      => b.liters % 2 = 0
        /\ SameDayExample =>
              /\ ret.val.days = 1
              /\ ret.val.total = 225
              /\ ret.val.df_12mo = <<[month |-> strftime_Ym(Jan15), liters |-> 22,
                                      sessions |-> 2]>>

\* C5 happens: the farm of the example has been summarized.
C5_Witness == SameDayExample

\* C6: a farm with no yield record gives total 0, 0 days, no year entry and
\* no bucket; an animal with no yield record gives the same, a duration equal
\* to its lactation days (0), and null statistics.
C6_EmptyScope ==
    /\ (FarmSummary /\ Scope = {}) =>
          /\ ret.val.total = 0
          /\ ret.val.days = 0
          /\ ret.val.df_year = << >>
          /\ ret.val.df_12mo = << >>
    /\ (AnimalSummary /\ Scope = {}) =>
          /\ ret.val.total = 0
          /\ ret.val.days = 0
          /\ ret.val.duration = 0
          /\ ret.val.duration = ret.val.days
          /\ ret.val.df_year = << >>
          /\ ret.val.df_12mo = << >>
          /\ ret.val.stats = [avg_daily |-> NoNumber, max_yield |-> NoNumber,
                              min_yield |-> NoNumber]

\* C6 happens: an animal without records has just been summarized, and the
\* summary of a farm without records is in the memo, while storage holds
\* records of other scopes.
C6_Witness ==
    /\ AnimalSummary
    /\ Scope = {}
    /\ milk_yield # << >>
    /\ \E f \in DOMAIN cache_farm : FarmScope(f) = {}

\* C7: the year breakdown has one entry per distinct record_year of the
\* scope, in ascending order; each has days >= 1, liters the sum of the
\* year's yields, days the number of distinct dates of the year, and
\* avg_daily = liters / days rounded to one decimal.
C7_YearBreakdown ==
    (FarmSummary \/ AnimalSummary) =>
        LET yb == ret.val.df_year
            Y  == {milk_yield[i].record_year : i \in Scope}
        IN  /\ Len(yb) = Cardinality(Y)
            /\ {yb[k].year : k \in DOMAIN yb} = Y
            /\ \A k \in DOMAIN yb : k > 1 => yb[k - 1].year < yb[k].year
            /\ \A k \in DOMAIN yb :
                  LET rows == {i \in Scope : milk_yield[i].record_year = yb[k].year}
                  IN  /\ yb[k].days >= 1
                      /\ yb[k].days = Cardinality({DayOf(i) : i \in rows})
                      /\ yb[k].liters = SumOver(YieldOf, rows)
                      /\ yb[k].avg_daily # NoNumber
                      /\ IsNearest(yb[k].avg_daily[1], yb[k].liters, yb[k].days)

\* C7 happens: a breakdown has been returned with an entry of three days
\* whose average is not a whole number of tenths before rounding.
C7_Witness ==
    /\ (FarmSummary \/ AnimalSummary)
    /\ \E k \in DOMAIN ret.val.df_year :
          /\ ret.val.df_year[k].days = 3
          /\ ret.val.df_year[k].liters % 3 # 0

\* The animal of the example of C8 has been summarized: records only on
\* 2023-06-01 (5.0 L) and 2023-06-03 (7.0 L).
TwoDayExample ==
    /\ AnimalSummary
    /\ ret.arg = EarTag(1)
    /\ Cardinality(Scope) = 2
    /\ {milk_yield[i] : i \in Scope} =
          {YieldRow(EarTag(1), Jun01, 50), YieldRow(EarTag(1), Jun03, 70)}

\* C8: for an animal with a record, duration_days is last date - first date
\* + 1, lactation_days the number of distinct dates (at most duration_days),
\* and the statistics are the mean per record rounded to one decimal, the
\* maximum and the minimum; the example gives 3, 2, 7.0, 5.0 and 6.0.
C8_AnimalDurationAndStats ==
    (AnimalSummary /\ Scope # {}) =>
        LET D == {DayOf(i) : i \in Scope}
            V == {YieldOf[i] : i \in Scope}
        IN  /\ ret.val.duration = (Max(D) - Min(D)) + 1
            /\ ret.val.days = Cardinality(D)
            /\ ret.val.days <= ret.val.duration
            /\ ret.val.stats.avg_daily # NoNumber
            /\ IsNearest(ret.val.stats.avg_daily[1], SumOver(YieldOf, Scope),
                         Cardinality(Scope))
            /\ ret.val.stats.max_yield = <<Max(V)>>
            /\ ret.val.stats.min_yield = <<Min(V)>>
            /\ TwoDayExample =>
                  /\ ret.val.duration = 3
                  /\ ret.val.days = 2
                  /\ ret.val.stats = [avg_daily |-> <<60>>, max_yield |-> <<70>>,
                                      min_yield |-> <<50>>]

\* C8 happens: the animal of the example has been summarized.
C8_Witness == TwoDayExample

----------------------------------------------------------------------------
(* Properties of the page and of the memo *)

\* A casing of a protected name occurs in the text.
ShowsProtectedName(txt) ==
    txt # NULL /\
    \E word \in {magpantay, samabaco} :
        \E k \in 1 .. Len(txt) :
            /\ k + Len(word) - 1 <= Len(txt)
            /\ IsCasingOf(SubSeq(txt, k, k + Len(word) - 1), word)

\* C10: no alias of the directory is a protected name in any casing, and
\* the selector options, the header and the export file name show no
\* protected name, while the queries use the real name the alias stands for.
C10_ProtectedNameNeverShown ==
    /\ cache_alias # NotCached =>
          \A a \in KeySet(cache_alias[1].alias_to_internal) : ~IsProtectedName(a)
    /\ ui # NoUi =>
          /\ \A k \in DOMAIN ui.options :
                ~IsProtectedName(ui.options[k]) /\ ~ShowsProtectedName(ui.options[k])
          /\ ~ShowsProtectedName(ui.header)
          /\ ~ShowsProtectedName(ui.file_name)
          /\ ui.stage # "pick_a_farm" =>
                /\ ui.farm_internal \in RealNames
                /\ Get(cache_alias[1].internal_to_alias, ui.farm_internal)
                      \in SeqToSet(ui.options)
          /\ ui.stage = "farm_overview" =>
                /\ ui.farm_internal \in DOMAIN cache_farm
                /\ ui.header = Get(cache_alias[1].internal_to_alias, ui.farm_internal)

\* C10 happens: a protected farm whose alias has a suffix is on the page: the
\* header shows "K-farm-2" and the queries ran with the protected name.
C10_Witness ==
    /\ ui # NoUi
    /\ ui.stage = "farm_overview"
    /\ IsProtectedName(ui.farm_internal)
    /\ ui.header = Suffixed(KFarm, 2)
    /\ ui.file_name = Suffixed(KFarm, 2) \o ReportSuffix

\* C3: a memoized function returns what recomputation against the current
\* content of the storage returns.
C3_ResultsAreCurrent ==
    /\ BuiltMaps => ret.val = build_farm_alias_maps_body(animals)
    /\ FarmSummary => ret.val = farm_yield_summary_body(ret.arg)
    /\ AnimalSummary => ret.val = animal_yield_summary_body(ret.arg)

============================================================================
